---- MODULE Spec2Model ----
(***************************************************************************)
(* A model of shell.c: the read / parse / execute loop of main, the        *)
(* tokenizer parse_line, the dispatcher execute_command with the built-ins *)
(* of handle_builtin, the process launcher launch_process and the two      *)
(* stage pipeline of handle_pipe, together with the child processes they   *)
(* fork, the descriptor tables of every process and the heap blocks of     *)
(* one line cycle.                                                         *)
(*                                                                         *)
(* Strings of the program are sequences of one-character strings, so that  *)
(* strtok, strchr and strcmp are computed character by character.          *)
(***************************************************************************)
EXTENDS Integers, Sequences, FiniteSets

\* ------------------------------------------------------------------------
\* Program constants
\* ------------------------------------------------------------------------

\* #define MAX_ARGS 64
MAX_ARGS == 64

\* a delimiter set without the tab
TOKEN_DELIMITERS_M == {" ", "\n"}

\* #define TOKEN_DELIMITERS " \t\n"
TOKEN_DELIMITERS == {" ", "\t", "\n"}

\* char *builtin_commands[] = {"cd", "exit"}
builtin_commands == {<<"c", "d">>, <<"e", "x", "i", "t">>}

STDIN_FILENO == 0
STDOUT_FILENO == 1

\* ------------------------------------------------------------------------
\* Bounds of the model
\* ------------------------------------------------------------------------

\* lines read in one session
MaxLines == 2
\* stop reports (WUNTRACED) delivered for one child
MaxStops == 1
\* descriptor numbers 0..MaxFd exist in every descriptor table
MaxFd == 4

\* ------------------------------------------------------------------------
\* Strings
\* ------------------------------------------------------------------------

SP == <<" ">>
TAB == <<"\t">>
NL == <<"\n">>
BAR == <<"|">>
S_cd == <<"c", "d">>
S_exit == <<"e", "x", "i", "t">>
S_Exit == <<"E", "x", "i", "t">>
S_ls == <<"l", "s">>
S_wc == <<"w", "c">>
S_d == <<"d">>
S_x == <<"x">>

\* n copies of the string s
Rep(s, n) == [k \in 1..(n * Len(s)) |-> s[((k - 1) % Len(s)) + 1]]

\* ------------------------------------------------------------------------
\* read_line: the newline strip
\* ------------------------------------------------------------------------

\* read_line, after fgets: a trailing '\n' is replaced by the terminator
StripNewline(buffer) ==
  IF Len(buffer) > 0 /\ buffer[Len(buffer)] = "\n"
  THEN SubSeq(buffer, 1, Len(buffer) - 1)
  ELSE buffer

\* ------------------------------------------------------------------------
\* parse_line: tokenization
\* ------------------------------------------------------------------------

\* the successive results of strtok(line_copy, TOKEN_DELIMITERS), strtok(NULL, ...):
\* the maximal runs of non-delimiter characters, in order.  The runs of
\* s[lo..hi] are those of its two halves, the run that spans the cut joined.
RECURSIVE StrTokRange(_, _, _)
StrTokRange(s, lo, hi) ==
  IF lo > hi THEN <<>>
  ELSE IF lo = hi
       THEN IF s[lo] \in TOKEN_DELIMITERS THEN <<>> ELSE << <<s[lo]>> >>
       ELSE LET mid == (lo + hi) \div 2
                L == StrTokRange(s, lo, mid)
                R == StrTokRange(s, mid + 1, hi)
            IN IF s[mid] \notin TOKEN_DELIMITERS /\ s[mid + 1] \notin TOKEN_DELIMITERS
               THEN SubSeq(L, 1, Len(L) - 1) \o << L[Len(L)] \o R[1] >> \o Tail(R)
               ELSE L \o R

StrTok(line) == StrTokRange(line, 1, Len(line))

\* strchr(pipe_check_copy, '|') != NULL
PipePresent(line) == \E k \in 1..Len(line) : line[k] = "|"

\* A slot of the argument array: never written, the NULL pointer, or a pointer
\* to the strdup'ed copy of a token.
Unwritten == [k |-> "unwritten", s |-> <<>>]
Null == [k |-> "null", s |-> <<>>]
Ptr(t) == [k |-> "ptr", s |-> t]

\* i after the tokenization loop: while (token != NULL && i < MAX_ARGS)
TokCount(toks) == IF Len(toks) < MAX_ARGS THEN Len(toks) ELSE MAX_ARGS

\* if (token != NULL && i >= MAX_ARGS)
TooMany(toks) == Len(toks) > MAX_ARGS

\* the array malloc'ed with MAX_ARGS + 1 slots after the loop has stored
\* args[0..i-1]; args[i] = NULL is written only when the cap is not exceeded
ArgsAfterLoop(toks) ==
  [j \in 0..MAX_ARGS |->
     IF j < TokCount(toks) THEN Ptr(toks[j + 1])
     ELSE IF j = TokCount(toks) /\ ~TooMany(toks) THEN Null
     ELSE Unwritten]

\* a marker test that looks for the character inside the token
IsBar_M(slot) == slot.k = "ptr" /\ \E c \in 1..Len(slot.s) : slot.s[c] = "|"

\* strcmp(args[j], "|") == 0
IsBar(slot) == slot.k = "ptr" /\ slot.s = BAR

\* PipeIndex without the break: the last "|" token wins
PipeIndex_M(a) ==
  LET hits == {j \in 0..MAX_ARGS :
                 /\ IsBar(a[j])
                 /\ \A m \in 0..(j - 1) : a[m].k = "ptr"
                 /\ \A m \in (j + 1)..MAX_ARGS : ~IsBar(a[m])}
  IN IF hits = {} THEN -1 ELSE CHOOSE j \in hits : TRUE

\* for (j = 0; args[j] != NULL; j++) if (strcmp(args[j], "|") == 0)
\*   { pipe_index = j; break; }     -1 when the loop ends without a match
PipeIndex(a) ==
  LET hits == {j \in 0..MAX_ARGS :
                 /\ IsBar(a[j])
                 /\ \A m \in 0..(j - 1) : a[m].k = "ptr" /\ ~IsBar(a[m])}
  IN IF hits = {} THEN -1 ELSE CHOOSE j \in hits : TRUE

\* the slots from `from` that hold strings, up to the first that does not:
\* what a loop `for (i = 0; v[i] != NULL; i++)` over v == &a[from] visits
Run(a, from) ==
  LET stop == CHOOSE j \in from..(MAX_ARGS + 1) :
                /\ j = MAX_ARGS + 1 \/ a[j].k # "ptr"
                /\ \A m \in from..(j - 1) : a[m].k = "ptr"
  IN from..(stop - 1)

\* the vector a NULL-terminated char ** denotes
Vec(a, from) == [n \in 1..Cardinality(Run(a, from)) |-> a[from + n - 1].s]

\* ------------------------------------------------------------------------
\* Input lines of the sessions explored (as fgets delivers them)
\* ------------------------------------------------------------------------

\* the words of ws separated by single spaces
RECURSIVE Join(_)
Join(ws) == IF ws = <<>> THEN <<>>
            ELSE IF Len(ws) = 1 THEN ws[1]
            ELSE ws[1] \o SP \o Join(Tail(ws))

Lines ==
  { NL,
    SP \o TAB \o NL,
    S_exit \o NL,
    Join(<<S_exit, S_x>>) \o NL,
    S_Exit \o NL,
    S_cd \o S_d \o NL,
    S_cd \o NL,
    Join(<<S_cd, S_d>>) \o NL,
    Join(<<S_cd, S_x>>) \o NL,
    SP \o S_ls \o TAB \o SP \o S_x,
    Join(<<S_ls, BAR, S_wc>>) \o NL,
    Join(<<BAR, S_ls>>) \o NL,
    Join(<<S_ls, BAR>>) \o NL,
    S_ls \o BAR \o S_wc \o NL,
    Join(<<S_ls \o BAR \o S_wc, S_x>>) \o NL,
    Join(<<S_ls, BAR, S_wc, BAR, S_x>>) \o NL,
    Join(<<S_cd, BAR, S_exit>>) \o NL,
    Rep(S_x \o SP, MAX_ARGS) \o NL,
    Rep(S_x \o SP, MAX_ARGS + 1) \o NL,
    Rep(S_x \o SP, MAX_ARGS - 1) \o BAR \o NL,
    Rep(S_x \o SP, MAX_ARGS) \o BAR \o NL }

\* directories that exist, for chdir
ExistingDirs == {<<"d">>, <<"h">>}

\* ------------------------------------------------------------------------
\* State
\* ------------------------------------------------------------------------

VARIABLES
  pc,             \* the interpreter's position in main / parse_line / handle_pipe / launch_process
  status,         \* main's local `status`
  status_written, \* whether `status` has been assigned (it has no initializer)
  main_args,      \* main's local `args`: what parse_line returned ("NULL" or "ptr")
  nread,          \* lines read so far
  line,           \* the buffer read_line returned, until parse_line has used it
  args,           \* the MAX_ARGS + 1 slots of parse_line's array
  pipe_index,     \* parse_line's pipe_index (command2 == &args[pipe_index + 1])
  heapBuf,        \* live malloc blocks: <<c, b>> is block b ("line", "line_copy", "args") of the c-th line
  heapTok,        \* live token blocks: <<c, j>> is the strdup stored in args[j] for the c-th line
  memErr,         \* memory errors of this line cycle
  msg,            \* last diagnostic the interpreter wrote in this line cycle
  pfd,            \* the interpreter's descriptor table
  pipe_fd,        \* handle_pipe's pipe_fd[0], pipe_fd[1]
  child,          \* the child processes: 1 = single command or producer, 2 = consumer
  sigint,         \* the interpreter's SIGINT disposition
  cwd,            \* the interpreter's working directory
  home,           \* getenv("HOME"): <<>> when unset
  sigchld_ign,    \* SIGCHLD inherited as ignored: the kernel reaps children itself
  pfd0            \* the descriptor table the interpreter was started with

vars == <<pc, status, status_written, main_args, nread, line, args, pipe_index, heapBuf,
          heapTok, memErr, msg, pfd, pipe_fd, child, sigint, cwd, home, sigchld_ign, pfd0>>

mainVars == <<status, status_written, main_args>>
parseVars == <<line, args, pipe_index>>
heapVars == <<heapBuf, heapTok, memErr>>
procVars == <<pfd, pipe_fd, child>>
envVars == <<home, sigchld_ign, pfd0>>

Fds == 0..MaxFd

\* the blocks malloc and strdup return in the cycle of the current line
Blk(b) == <<nread, b>>
TokBlk(J) == {<<nread, j>> : j \in J}

\* the blocks of the current line that are live
CurBuf == {b \in {"line", "line_copy", "args"} : <<nread, b>> \in heapBuf}
CurTok == {j \in 0..MAX_ARGS : <<nread, j>> \in heapTok}

NoArgs == [j \in 0..MAX_ARGS |-> Unwritten]

NoChild == [pc |-> "none", role |-> "none", fds |-> [f \in Fds |-> "closed"],
            sigint |-> "IGN", term |-> "none", said |-> "none", stops |-> 0,
            stop_unreported |-> FALSE, sigterm |-> FALSE]

S_start == <<"/">>
S_home == <<"h">>
\* a value of HOME that names no directory
S_nohome == <<"n">>

\* The environments a session is started in: the usual one (descriptors 0, 1
\* and 2 open, HOME naming a directory, SIGCHLD not ignored), and those that
\* differ from it in the open descriptors, in HOME, or in SIGCHLD
Environments ==
  {[open |-> o, home |-> S_home, sigchld_ign |-> FALSE] : o \in SUBSET {0, 1, 2}}
    \cup {[open |-> {0, 1, 2}, home |-> h, sigchld_ign |-> FALSE] : h \in {<<>>, S_nohome}}
    \cup {[open |-> {0, 1, 2}, home |-> S_home, sigchld_ign |-> TRUE]}

Init ==
  /\ pc = "start"
  /\ status = 0
  /\ status_written = FALSE
  /\ main_args = "unset"
  /\ nread = 0
  /\ line = <<>>
  /\ args = NoArgs
  /\ pipe_index = -1
  /\ heapBuf = {}
  /\ heapTok = {}
  /\ memErr = {}
  /\ msg = "none"
  /\ \E e \in Environments :
       /\ pfd = [f \in Fds |-> IF f \in e.open THEN "tty" ELSE "closed"]
       /\ home = e.home
       /\ sigchld_ign = e.sigchld_ign
  /\ pfd0 = pfd
  /\ pipe_fd = <<-1, -1>>
  /\ child = [c \in {1, 2} |-> NoChild]
  /\ sigint = "DFL"
  /\ cwd = S_start

\* ------------------------------------------------------------------------
\* main
\* ------------------------------------------------------------------------

\* signal(SIGINT, SIG_IGN)
MainStart ==
  /\ pc = "start"
  /\ sigint' = "IGN"
  /\ pc' = "read"
  /\ UNCHANGED <<mainVars, nread, parseVars, heapVars, msg, procVars, cwd, envVars>>

\* line = read_line(); if (line == NULL) break;
\* read_line: malloc fails, or fgets returns NULL (end of input, or a read error
\* such as a closed descriptor 0), or a line is returned with its newline stripped
ReadLine ==
  /\ pc = "read"
  /\ \/ /\ msg' = "malloc failed in read_line"
        /\ pc' = "done"
        /\ UNCHANGED <<nread, line, heapBuf>>
     \/ /\ msg' = "none"
        /\ pc' = "done"
        /\ UNCHANGED <<nread, line, heapBuf>>
     \/ /\ pfd[STDIN_FILENO] # "closed"
        /\ nread < MaxLines
        /\ \E raw \in Lines : line' = StripNewline(raw)
        /\ nread' = nread + 1
        /\ heapBuf' = heapBuf \cup {<<nread + 1, "line">>}
        /\ msg' = "none"
        /\ pc' = "parse"
  /\ UNCHANGED <<mainVars, args, pipe_index, heapTok, memErr, procVars, sigint, cwd, envVars>>

\* if (args == NULL) { free(line); continue; }
MainParseNull ==
  /\ pc = "parse_null"
  /\ heapBuf' = heapBuf \ {Blk("line")}
  /\ pc' = "cond"
  /\ UNCHANGED <<mainVars, nread, parseVars, heapTok, memErr, msg, procVars, sigint, cwd, envVars>>

\* the token blocks free_args(&a[from]) frees when every slot it reads is
\* intact: those stored from slot `from` up to the first NULL
FreedBy(a, from) == Run(a, from)

\* free(line); free_args(args);   (after execute_command returned)
MainFree ==
  /\ pc = "free"
  /\ heapBuf' = heapBuf \ {Blk("line"), Blk("args")}
  /\ heapTok' = heapTok \ TokBlk(FreedBy(args, 0))
  /\ pc' = "cond"
  /\ UNCHANGED <<mainVars, nread, parseVars, memErr, msg, procVars, sigint, cwd, envVars>>

\* } while (status);   reached after the frees and by `continue`.  `status` has
\* no initializer: until execute_command has returned once, the value tested is
\* indeterminate.  Nothing is freed here: blocks still live stay allocated for
\* the rest of the session.  The locals of parse_line and the children of this
\* cycle are history.
MainLoopCond ==
  /\ pc = "cond"
  /\ \E v \in (IF status_written THEN {status} ELSE {0, 1}) :
       pc' = IF v # 0 THEN "read" ELSE "done"
  /\ line' = <<>>
  /\ args' = NoArgs
  /\ pipe_index' = -1
  /\ memErr' = {}
  /\ child' = [c \in {1, 2} |-> NoChild]
  /\ UNCHANGED <<mainVars, nread, heapBuf, heapTok, msg, pfd, pipe_fd, sigint, cwd, envVars>>

\* ------------------------------------------------------------------------
\* parse_line
\* ------------------------------------------------------------------------

\* parse_line returns NULL to main
ParseReturnsNull(m) ==
  /\ msg' = m
  /\ main_args' = "NULL"
  /\ pc' = "parse_null"

\* args = parse_line(line), up to its return or its call of handle_pipe
ParseLine ==
  /\ pc = "parse"
  /\ LET toks == StrTok(line)
         i == TokCount(toks)
         a == ArgsAfterLoop(toks)
     IN
     \/ \* line_copy = strdup(line) fails
        /\ ParseReturnsNull("strdup failed in parse_line")
        /\ UNCHANGED <<args, pipe_index, heapVars>>
     \/ \* pipe_check_copy = strdup(line) fails: line_copy is not freed
        /\ ParseReturnsNull("strdup failed in parse_line")
        /\ heapBuf' = heapBuf \cup {Blk("line_copy")}
        /\ UNCHANGED <<args, pipe_index, heapTok, memErr>>
     \/ \* args = malloc(...) fails: free(line_copy)
        /\ ParseReturnsNull("malloc failed in parse_line")
        /\ UNCHANGED <<args, pipe_index, heapVars>>
     \/ \* args[j] = strdup(token) fails: args[0..j-1], args and line_copy are freed
        /\ i > 0
        /\ ParseReturnsNull("strdup failed during tokenization")
        /\ UNCHANGED <<args, pipe_index, heapVars>>
     \/ \* more than MAX_ARGS tokens: free_args(args) frees args[0..MAX_ARGS-1] and
        \* then reads args[MAX_ARGS], which was never written
        /\ TooMany(toks)
        /\ args' = a
        /\ memErr' = memErr \cup {"uninitialized read"}
        /\ \/ \* the slot happens to hold NULL: free(args); free(line_copy); return NULL
              /\ ParseReturnsNull("Too many arguments")
              /\ UNCHANGED <<heapBuf, heapTok>>
           \/ \* the slot holds anything else: free() of a wild pointer
              /\ msg' = "Too many arguments"
              /\ pc' = "crashed"
              /\ heapBuf' = heapBuf \cup {Blk("args"), Blk("line_copy")}
              /\ UNCHANGED <<heapTok, main_args>>
        /\ UNCHANGED pipe_index
     \/ \* args[i] = NULL; free(line_copy); a "|" token found: handle_pipe is called
        /\ ~TooMany(toks)
        /\ PipePresent(line)
        /\ PipeIndex(a) # -1
        /\ args' = [a EXCEPT ![PipeIndex(a)] = Null]
        /\ pipe_index' = PipeIndex(a)
        /\ heapBuf' = heapBuf \cup {Blk("args")}
        /\ heapTok' = heapTok \cup TokBlk(0..(i - 1))
        /\ pc' = "hp_check"
        /\ UNCHANGED <<msg, main_args, memErr>>
     \/ \* args[i] = NULL; free(line_copy); return args
        /\ ~TooMany(toks)
        /\ ~(PipePresent(line) /\ PipeIndex(a) # -1)
        /\ args' = a
        /\ heapBuf' = heapBuf \cup {Blk("args")}
        /\ heapTok' = heapTok \cup TokBlk(0..(i - 1))
        /\ main_args' = "ptr"
        /\ pc' = "exec"
        /\ UNCHANGED <<msg, pipe_index, memErr>>
  /\ UNCHANGED <<status, status_written, nread, line, procVars, sigint, cwd, envVars>>

\* ------------------------------------------------------------------------
\* Processes and descriptor tables
\* ------------------------------------------------------------------------

\* close(fd)
Close(fds, fd) == [fds EXCEPT ![fd] = "closed"]

\* dup2(oldfd, newfd) succeeds: newfd refers to what oldfd refers to
\* (nothing changes when they are the same descriptor)
Dup2(fds, oldfd, newfd) == [fds EXCEPT ![newfd] = fds[oldfd]]

\* descriptors not open in the table
FreeFds(fds) == {f \in Fds : fds[f] = "closed"}

\* the lowest member of a non-empty set of descriptors
Lowest(S) == CHOOSE f \in S : \A g \in S : f <= g

\* fork(): the child starts with a copy of the parent's descriptors and its
\* (ignored) SIGINT disposition
Forked(role) ==
  [pc |-> "sig", role |-> role, fds |-> pfd, sigint |-> sigint, term |-> "none",
   said |-> "none", stops |-> 0, stop_unreported |-> FALSE, sigterm |-> FALSE]

\* a child that has terminated: a zombie until waited for, unless SIGCHLD is
\* ignored, in which case the kernel reaps it and a later waitpid finds no child.
\* How often it had stopped is remembered for the child of launch_process only,
\* whose wait (WUNTRACED) is the one that is told of stops.
Terminated(c, how, said) ==
  [c EXCEPT !.pc = IF sigchld_ign THEN "autoreaped" ELSE "zombie",
            !.term = how, !.said = said,
            !.fds = [f \in Fds |-> "closed"],
            !.stops = IF c.role = "single" THEN c.stops ELSE 0,
            !.stop_unreported = FALSE]

\* what is left of a child once a wait has resolved it
Reaped(c) == [NoChild EXCEPT !.pc = "reaped", !.role = c.role, !.term = c.term,
                             !.said = c.said, !.stops = c.stops]

Alive(c) == c.pc \notin {"none", "zombie", "autoreaped", "reaped"}
Resolved(c) == c.pc \in {"zombie", "autoreaped"}

\* ------------------------------------------------------------------------
\* execute_command, handle_builtin, launch_process
\* ------------------------------------------------------------------------

\* status = execute_command(args) returns v to main
ExecReturns(v) ==
  /\ status' = v
  /\ status_written' = TRUE
  /\ pc' = "free"

\* a comparison with the built-in names that ignores case
IsBuiltin_M(name) == name \in builtin_commands \cup {S_Exit}

\* strcmp(args[0], builtin_commands[i]) == 0 for some i
IsBuiltin(name) == name \in builtin_commands

\* handle_builtin that stops only for a bare "exit"
BuiltinResult_M(argv) == IF argv[1] = S_exit /\ Len(argv) = 1 THEN 0 ELSE 1

\* handle_builtin(args): its return value
BuiltinResult(argv) == IF argv[1] = S_exit THEN 0 ELSE 1

\* handle_builtin that never reads HOME
BuiltinChdirTarget_M(argv) ==
  IF argv[1] # S_cd THEN <<>>
  ELSE IF Len(argv) = 1 THEN <<>>
  ELSE argv[2]

\* handle_builtin(args): the directory chdir is called with, <<>> when it is
\* not called ("exit", or "cd" with neither an argument nor HOME)
BuiltinChdirTarget(argv) ==
  IF argv[1] # S_cd THEN <<>>
  ELSE IF Len(argv) = 1 THEN home
  ELSE argv[2]

\* handle_builtin(args): the diagnostic it writes
BuiltinMsg(argv) ==
  IF argv[1] = S_exit THEN "none"
  ELSE IF argv[1] = S_cd
       THEN IF Len(argv) = 1 /\ home = <<>> THEN "'cd' requires an argument if HOME is not set"
            ELSE IF BuiltinChdirTarget(argv) \in ExistingDirs THEN "none"
            ELSE "shell: chdir"
       ELSE "built-in command not implemented"

\* execute_command that reports stop for an empty Command
ExecuteBuiltin_M ==
  /\ pc = "exec"
  /\ LET argv == Vec(args, 0) IN
       IF args[0] = Null
       THEN /\ ExecReturns(0)
            /\ UNCHANGED <<msg, cwd>>
       ELSE /\ IsBuiltin(argv[1])
            /\ ExecReturns(BuiltinResult(argv))
            /\ msg' = BuiltinMsg(argv)
            /\ cwd' = IF BuiltinChdirTarget(argv) \in ExistingDirs
                      THEN BuiltinChdirTarget(argv) ELSE cwd
  /\ UNCHANGED <<main_args, nread, parseVars, heapVars, procVars, sigint, envVars>>

\* execute_command(args): nothing to do, or a built-in
ExecuteBuiltin ==
  /\ pc = "exec"
  /\ LET argv == Vec(args, 0) IN
       IF args[0] = Null
       THEN /\ ExecReturns(1)
            /\ UNCHANGED <<msg, cwd>>
       ELSE /\ IsBuiltin(argv[1])
            /\ ExecReturns(BuiltinResult(argv))
            /\ msg' = BuiltinMsg(argv)
            /\ cwd' = IF BuiltinChdirTarget(argv) \in ExistingDirs
                      THEN BuiltinChdirTarget(argv) ELSE cwd
  /\ UNCHANGED <<main_args, nread, parseVars, heapVars, procVars, sigint, envVars>>

\* execute_command(args) -> launch_process(args): pid = fork()
LaunchFork ==
  /\ pc = "exec"
  /\ args[0] # Null
  /\ ~IsBuiltin(Vec(args, 0)[1])
  /\ \/ \* pid == -1: perror("fork failed"); return 1
        /\ msg' = "fork failed"
        /\ ExecReturns(1)
        /\ UNCHANGED child
     \/ \* the child exists; the parent goes on to waitpid
        /\ child' = [child EXCEPT ![1] = Forked("single")]
        /\ pc' = "lp_wait"
        /\ UNCHANGED <<msg, status, status_written>>
  /\ UNCHANGED <<main_args, nread, parseVars, heapVars, pfd, pipe_fd, sigint, cwd, envVars>>

\* launch_process whose loop also ends on a stop report
LaunchWait_M ==
  /\ pc = "lp_wait"
  /\ \/ /\ child[1].stop_unreported
        /\ child' = [child EXCEPT ![1].stop_unreported = FALSE]
        /\ ExecReturns(1)
        /\ UNCHANGED msg
     \/ /\ child[1].pc = "zombie"
        /\ child' = [child EXCEPT ![1] = Reaped(child[1])]
        /\ ExecReturns(1)
        /\ UNCHANGED msg
     \/ /\ child[1].pc = "autoreaped"
        /\ child' = [child EXCEPT ![1] = Reaped(child[1])]
        /\ msg' = "waitpid failed"
        /\ ExecReturns(1)
  /\ UNCHANGED <<main_args, nread, parseVars, heapVars, pfd, pipe_fd, sigint, cwd, envVars>>

\* do { wpid = waitpid(pid, &status, WUNTRACED); if (wpid == -1) {...; return 1;} }
\* while (!WIFEXITED(status) && !WIFSIGNALED(status));
LaunchWait ==
  /\ pc = "lp_wait"
  /\ \/ \* the child is reported stopped: neither exited nor signaled, wait again
        /\ child[1].stop_unreported
        /\ child' = [child EXCEPT ![1].stop_unreported = FALSE]
        /\ UNCHANGED <<pc, msg, status, status_written>>
     \/ \* the child has exited or was killed by a signal: it is reaped, return 1
        /\ child[1].pc = "zombie"
        /\ child' = [child EXCEPT ![1] = Reaped(child[1])]
        /\ ExecReturns(1)
        /\ UNCHANGED msg
     \/ \* no child to wait for (ECHILD): perror("waitpid failed"); return 1
        /\ child[1].pc = "autoreaped"
        /\ child' = [child EXCEPT ![1] = Reaped(child[1])]
        /\ msg' = "waitpid failed"
        /\ ExecReturns(1)
  /\ UNCHANGED <<main_args, nread, parseVars, heapVars, pfd, pipe_fd, sigint, cwd, envVars>>

\* ------------------------------------------------------------------------
\* handle_pipe: the interpreter's side
\* ------------------------------------------------------------------------

\* handle_pipe returns (always 1) to parse_line, which returns NULL to main
PipeReturns ==
  /\ main_args' = "NULL"
  /\ pipe_fd' = <<-1, -1>>
  /\ pc' = "parse_null"

\* handle_pipe that checks only its first command
HpCheck_M ==
  /\ pc = "hp_check"
  /\ IF args[0] = Null
     THEN /\ msg' = "Invalid command usage with pipe"
          /\ PipeReturns
     ELSE /\ pc' = "hp_pipe"
          /\ UNCHANGED <<msg, main_args, pipe_fd>>
  /\ UNCHANGED <<status, status_written, nread, parseVars, heapVars, pfd, child, sigint, cwd, envVars>>

\* if (command1[0] == NULL || command2[0] == NULL) { fprintf(...); return 1; }
HpCheck ==
  /\ pc = "hp_check"
  /\ IF args[0] = Null \/ args[pipe_index + 1] = Null
     THEN /\ msg' = "Invalid command usage with pipe"
          /\ PipeReturns
     ELSE /\ pc' = "hp_pipe"
          /\ UNCHANGED <<msg, main_args, pipe_fd>>
  /\ UNCHANGED <<status, status_written, nread, parseVars, heapVars, pfd, child, sigint, cwd, envVars>>

\* if (pipe(pipe_fd) == -1) { perror("pipe failed"); return 1; }
\* pipe() takes the two lowest free descriptors, the read end first
HpPipe ==
  /\ pc = "hp_pipe"
  /\ \/ /\ msg' = "pipe failed"
        /\ PipeReturns
        /\ UNCHANGED pfd
     \/ /\ Cardinality(FreeFds(pfd)) >= 2
        /\ LET r == Lowest(FreeFds(pfd))
               w == Lowest(FreeFds(pfd) \ {r})
           IN /\ pfd' = [pfd EXCEPT ![r] = "r", ![w] = "w"]
              /\ pipe_fd' = <<r, w>>
        /\ pc' = "hp_fork1"
        /\ UNCHANGED <<msg, main_args>>
  /\ UNCHANGED <<status, status_written, nread, parseVars, heapVars, child, sigint, cwd, envVars>>

\* pid1 = fork();
HpFork1 ==
  /\ pc = "hp_fork1"
  /\ \/ \* pid1 == -1: perror; close(pipe_fd[0]); close(pipe_fd[1]); return 1
        /\ msg' = "fork failed for first command"
        /\ pfd' = Close(Close(pfd, pipe_fd[1]), pipe_fd[2])
        /\ PipeReturns
        /\ UNCHANGED child
     \/ /\ child' = [child EXCEPT ![1] = Forked("producer")]
        /\ pc' = "hp_fork2"
        /\ UNCHANGED <<msg, main_args, pfd, pipe_fd>>
  /\ UNCHANGED <<status, status_written, nread, parseVars, heapVars, sigint, cwd, envVars>>

\* pid2 = fork();
HpFork2 ==
  /\ pc = "hp_fork2"
  /\ \/ \* pid2 == -1: perror("fork failed for second command") comes first
        /\ msg' = "fork failed for second command"
        /\ pc' = "hp_kill"
        /\ UNCHANGED child
     \/ /\ child' = [child EXCEPT ![2] = Forked("consumer")]
        /\ pc' = "hp_close0"
        /\ UNCHANGED msg
  /\ UNCHANGED <<mainVars, nread, parseVars, heapVars, pfd, pipe_fd, sigint, cwd, envVars>>

\* kill(pid1, SIGTERM);
HpKill ==
  /\ pc = "hp_kill"
  /\ child' = [child EXCEPT ![1].sigterm = Alive(child[1])]
  /\ pc' = "hp_killwait"
  /\ UNCHANGED <<mainVars, nread, parseVars, heapVars, msg, pfd, pipe_fd, sigint, cwd, envVars>>

\* the failure path without its waitpid
HpKillWait_M ==
  /\ pc = "hp_killwait"
  /\ pc' = "hp_failclose"
  /\ UNCHANGED <<mainVars, nread, parseVars, heapVars, msg, procVars, sigint, cwd, envVars>>

\* waitpid(pid1, NULL, 0);   blocks until the first child has terminated
HpKillWait ==
  /\ pc = "hp_killwait"
  /\ Resolved(child[1])
  /\ child' = [child EXCEPT ![1] = Reaped(child[1])]
  /\ pc' = "hp_failclose"
  /\ UNCHANGED <<mainVars, nread, parseVars, heapVars, msg, pfd, pipe_fd, sigint, cwd, envVars>>

\* close(pipe_fd[0]); close(pipe_fd[1]); return 1;   (second fork failed)
HpFailClose ==
  /\ pc = "hp_failclose"
  /\ pfd' = Close(Close(pfd, pipe_fd[1]), pipe_fd[2])
  /\ PipeReturns
  /\ UNCHANGED <<status, status_written, nread, parseVars, heapVars, msg, child, sigint, cwd, envVars>>

\* close(pipe_fd[0]);   (both children spawned)
HpClose0 ==
  /\ pc = "hp_close0"
  /\ pfd' = Close(pfd, pipe_fd[1])
  /\ pc' = "hp_close1"
  /\ UNCHANGED <<mainVars, nread, parseVars, heapVars, msg, pipe_fd, child, sigint, cwd, envVars>>

\* handle_pipe that leaves the write end open in the interpreter
HpClose1_M ==
  /\ pc = "hp_close1"
  /\ pc' = "hp_wait1"
  /\ UNCHANGED <<mainVars, nread, parseVars, heapVars, msg, procVars, sigint, cwd, envVars>>

\* close(pipe_fd[1]);
HpClose1 ==
  /\ pc = "hp_close1"
  /\ pfd' = Close(pfd, pipe_fd[2])
  /\ pc' = "hp_wait1"
  /\ UNCHANGED <<mainVars, nread, parseVars, heapVars, msg, pipe_fd, child, sigint, cwd, envVars>>

\* waitpid(pid1, &status1, 0);
HpWait1 ==
  /\ pc = "hp_wait1"
  /\ Resolved(child[1])
  /\ child' = [child EXCEPT ![1] = Reaped(child[1])]
  /\ pc' = "hp_wait2"
  /\ UNCHANGED <<mainVars, nread, parseVars, heapVars, msg, pfd, pipe_fd, sigint, cwd, envVars>>

\* handle_pipe that does not wait for its second child
HpWait2_M ==
  /\ pc = "hp_wait2"
  /\ pc' = "hp_free1"
  /\ UNCHANGED <<mainVars, nread, parseVars, heapVars, msg, procVars, sigint, cwd, envVars>>

\* waitpid(pid2, &status2, 0);
HpWait2 ==
  /\ pc = "hp_wait2"
  /\ Resolved(child[2])
  /\ child' = [child EXCEPT ![2] = Reaped(child[2])]
  /\ pc' = "hp_free1"
  /\ UNCHANGED <<mainVars, nread, parseVars, heapVars, msg, pfd, pipe_fd, sigint, cwd, envVars>>

\* free_args(command1);   command1 == args: the tokens before the marker, then
\* the array itself
HpFree1 ==
  /\ pc = "hp_free1"
  /\ heapTok' = heapTok \ TokBlk(FreedBy(args, 0))
  /\ heapBuf' = heapBuf \ {Blk("args")}
  /\ pc' = "hp_free2"
  /\ UNCHANGED <<mainVars, nread, parseVars, memErr, msg, procVars, sigint, cwd, envVars>>

\* free_args(command2); return 1;   command2 == &args[pipe_index + 1] points
\* into the array free_args(command1) has just freed: its slots are read after
\* the free, and free(command2) is passed an address inside a freed block
HpFree2 ==
  /\ pc = "hp_free2"
  /\ memErr' = memErr \cup {"use after free", "invalid free"}
  /\ heapTok' = heapTok \ TokBlk(FreedBy(args, pipe_index + 1))
  /\ \/ \* the allocator does not notice
        /\ PipeReturns
     \/ \* the allocator aborts the process
        /\ pc' = "crashed"
        /\ UNCHANGED <<main_args, pipe_fd>>
  /\ UNCHANGED <<status, status_written, nread, parseVars, heapBuf, msg, pfd, child, sigint, cwd, envVars>>

\* ------------------------------------------------------------------------
\* The children (the code after fork() returned 0)
\* ------------------------------------------------------------------------

parentOnly == <<pc, mainVars, nread, parseVars, heapVars, msg, pfd, pipe_fd, sigint, cwd, envVars>>

\* the channel end a pipeline child does not need / the end it redirects
UnusedEnd(role) == IF role = "producer" THEN pipe_fd[1] ELSE pipe_fd[2]
UsedEnd(role) == IF role = "producer" THEN pipe_fd[2] ELSE pipe_fd[1]
\* the standard stream a pipeline child redirects
StdStream(role) == IF role = "producer" THEN STDOUT_FILENO ELSE STDIN_FILENO

\* a child that keeps the disposition it inherited
ChildSignal_M(n) ==
  /\ child[n].pc = "sig"
  /\ child' = [child EXCEPT ![n].pc = IF child[n].role = "single" THEN "exec" ELSE "close_unused"]
  /\ UNCHANGED parentOnly

\* signal(SIGINT, SIG_DFL);
ChildSignal(n) ==
  /\ child[n].pc = "sig"
  /\ child' = [child EXCEPT ![n].sigint = "DFL",
                            ![n].pc = IF child[n].role = "single" THEN "exec" ELSE "close_unused"]
  /\ UNCHANGED parentOnly

\* a child that keeps the end it does not need
ChildCloseUnused_M(n) ==
  /\ child[n].pc = "close_unused"
  /\ child' = [child EXCEPT ![n].pc = "dup2"]
  /\ UNCHANGED parentOnly

\* producer: close(pipe_fd[0]);   consumer: close(pipe_fd[1]);
ChildCloseUnused(n) ==
  /\ child[n].pc = "close_unused"
  /\ child' = [child EXCEPT ![n].fds = Close(child[n].fds, UnusedEnd(child[n].role)),
                            ![n].pc = "dup2"]
  /\ UNCHANGED parentOnly

\* a child that reports a failed dup2 and goes on to close and execvp
ChildDup2_M(n) ==
  /\ child[n].pc = "dup2"
  /\ LET c == child[n]
         old == UsedEnd(c.role)
     IN \/ child' = [child EXCEPT ![n].said = "dup2 failed", ![n].pc = "close_used"]
        \/ /\ c.fds[old] # "closed"
           /\ child' = [child EXCEPT ![n].fds = Dup2(c.fds, old, StdStream(c.role)),
                                     ![n].pc = "close_used"]
  /\ UNCHANGED parentOnly

\* producer: if (dup2(pipe_fd[1], STDOUT_FILENO) == -1) { perror; exit(1); }
\* consumer: if (dup2(pipe_fd[0], STDIN_FILENO) == -1) { perror; exit(1); }
\* dup2 fails when the old descriptor is not open, and may fail otherwise
ChildDup2(n) ==
  /\ child[n].pc = "dup2"
  /\ LET c == child[n]
         old == UsedEnd(c.role)
     IN \/ child' = [child EXCEPT ![n] = Terminated(c, "exit 1", "dup2 failed")]
        \/ /\ c.fds[old] # "closed"
           /\ child' = [child EXCEPT ![n].fds = Dup2(c.fds, old, StdStream(c.role)),
                                     ![n].pc = "close_used"]
  /\ UNCHANGED parentOnly

\* a child that keeps the original handle of the end it has redirected
ChildCloseUsed_M(n) ==
  /\ child[n].pc = "close_used"
  /\ child' = [child EXCEPT ![n].pc = "exec"]
  /\ UNCHANGED parentOnly

\* producer: close(pipe_fd[1]);   consumer: close(pipe_fd[0]);
ChildCloseUsed(n) ==
  /\ child[n].pc = "close_used"
  /\ child' = [child EXCEPT ![n].fds = Close(child[n].fds, UsedEnd(child[n].role)),
                            ![n].pc = "exec"]
  /\ UNCHANGED parentOnly

\* a child that reports a failed execvp and does not exit: it goes on into the
\* code that follows the spawn site
ChildExec_M(n) ==
  /\ child[n].pc = "exec"
  /\ \/ child' = [child EXCEPT ![n].pc = "image"]
     \/ child' = [child EXCEPT ![n].said = "shell", ![n].pc = "after_spawn_site"]
  /\ UNCHANGED parentOnly

\* execvp(command[0], command): the program image replaces the child, or
\* execvp returns -1: perror("shell"); exit(1);
ChildExec(n) ==
  /\ child[n].pc = "exec"
  /\ \/ child' = [child EXCEPT ![n].pc = "image"]
     \/ child' = [child EXCEPT ![n] = Terminated(child[n], "exit 1", "shell")]
  /\ UNCHANGED parentOnly

\* the program exits, or a signal terminates it
ProgramEnds(n) ==
  /\ child[n].pc \in {"image", "stopped"}
  /\ \/ /\ child[n].pc = "image"
        /\ child' = [child EXCEPT ![n] = Terminated(child[n], "exit", child[n].said)]
     \/ child' = [child EXCEPT ![n] = Terminated(child[n], "signal", child[n].said)]
  /\ UNCHANGED parentOnly

\* a stop signal stops the program (reported once to a WUNTRACED wait, which
\* only launch_process makes: the waits of handle_pipe pass no option)
ProgramStops(n) ==
  /\ child[n].pc = "image"
  /\ child[n].stops < MaxStops
  /\ child' = [child EXCEPT ![n].pc = "stopped", ![n].stops = child[n].stops + 1,
                            ![n].stop_unreported = (child[n].role = "single")]
  /\ UNCHANGED parentOnly

\* SIGCONT
ProgramContinues(n) ==
  /\ child[n].pc = "stopped"
  /\ child' = [child EXCEPT ![n].pc = "image"]
  /\ UNCHANGED parentOnly

\* the SIGTERM sent by handle_pipe is delivered with its default action
SigtermDelivered(n) ==
  /\ child[n].sigterm
  /\ Alive(child[n])
  /\ child' = [child EXCEPT ![n] = Terminated(child[n], "signal", child[n].said)]
  /\ UNCHANGED parentOnly

ChildStep ==
  \E n \in {1, 2} :
    \/ ChildSignal(n)
    \/ ChildCloseUnused(n)
    \/ ChildDup2(n)
    \/ ChildCloseUsed(n)
    \/ ChildExec(n)
    \/ ProgramEnds(n)
    \/ ProgramStops(n)
    \/ ProgramContinues(n)
    \/ SigtermDelivered(n)

\* ------------------------------------------------------------------------
\* Specification
\* ------------------------------------------------------------------------

Next ==
  \/ MainStart
  \/ ReadLine
  \/ ParseLine
  \/ MainParseNull
  \/ ExecuteBuiltin
  \/ LaunchFork
  \/ LaunchWait
  \/ MainFree
  \/ MainLoopCond
  \/ HpCheck
  \/ HpPipe
  \/ HpFork1
  \/ HpFork2
  \/ HpKill
  \/ HpKillWait
  \/ HpFailClose
  \/ HpClose0
  \/ HpClose1
  \/ HpWait1
  \/ HpWait2
  \/ HpFree1
  \/ HpFree2
  \/ ChildStep

Spec == Init /\ [][Next]_vars

\* no process holds an open handle of the channel's write end
NoWriteEnd ==
  /\ \A f \in Fds : pfd[f] # "w"
  /\ \A n \in {1, 2} : \A f \in Fds : child[n].fds[f] # "w"

\* a consumer program that reads its standard input to the end: once no write
\* end is open its read returns end-of-stream and it terminates
ConsumerAtEof(n) ==
  /\ child[n].role = "consumer"
  /\ NoWriteEnd
  /\ ProgramEnds(n)

\* Scheduling: the interpreter inside handle_pipe and every child before its
\* execvp are runnable processes that block on nothing but the waitpid calls,
\* so each of their steps is eventually taken; a consumer program terminates
\* on end-of-stream.
Fairness ==
  /\ WF_vars(HpClose0)
  /\ WF_vars(HpClose1)
  /\ WF_vars(HpWait1)
  /\ WF_vars(HpWait2)
  /\ \A n \in {1, 2} :
       /\ WF_vars(ChildSignal(n))
       /\ WF_vars(ChildCloseUnused(n))
       /\ WF_vars(ChildDup2(n))
       /\ WF_vars(ChildCloseUsed(n))
       /\ WF_vars(ChildExec(n))
       /\ WF_vars(ConsumerAtEof(n))

\* One line cycle of a pipeline: main has read a line with a "|" token, on any
\* descriptor table it can have then (descriptor 0 is open: a line was read)
PipeLines == {r \in Lines : PipeIndex(ArgsAfterLoop(StrTok(StripNewline(r)))) # -1}

InitPipeline ==
  /\ pc = "parse"
  /\ status = 0
  /\ status_written = FALSE
  /\ main_args = "unset"
  /\ nread = 1
  /\ \E r \in PipeLines : line = StripNewline(r)
  /\ args = NoArgs
  /\ pipe_index = -1
  /\ heapBuf = {<<1, "line">>}
  /\ heapTok = {}
  /\ memErr = {}
  /\ msg = "none"
  /\ \E open \in SUBSET {1, 2} :
       pfd = [f \in Fds |-> IF f \in open \cup {STDIN_FILENO} THEN "tty" ELSE "closed"]
  /\ pfd0 = pfd
  /\ pipe_fd = <<-1, -1>>
  /\ child = [c \in {1, 2} |-> NoChild]
  /\ sigint = "IGN"
  /\ cwd = S_start
  /\ home \in {<<>>, S_home, S_nohome}
  /\ sigchld_ign \in BOOLEAN

NextPipeline ==
  \/ ParseLine
  \/ MainParseNull
  \/ HpCheck
  \/ HpPipe
  \/ HpFork1
  \/ HpFork2
  \/ HpKill
  \/ HpKillWait
  \/ HpFailClose
  \/ HpClose0
  \/ HpClose1
  \/ HpWait1
  \/ HpWait2
  \/ HpFree1
  \/ HpFree2
  \/ ChildStep

SpecLive == InitPipeline /\ [][NextPipeline]_vars /\ Fairness

\* ------------------------------------------------------------------------
\* The tokenizer alone: parse_line, and handle_pipe's check, on every line
\* over a small alphabet
\* ------------------------------------------------------------------------

\* characters of the lines of SpecParse
Alphabet == {"a", "b", "|", " "}
\* their greatest length
MaxLineLen == 7

\* characters of the lines that exercise the delimiters
TabAlphabet == {"a", "b", " ", "\t"}
\* their greatest length
MaxTabLen == 6

\* every line over the two alphabets, and the lines of the sessions
AllLines ==
  UNION {[1..n -> Alphabet] : n \in 0..MaxLineLen}
    \cup UNION {[1..n -> TabAlphabet] : n \in 0..MaxTabLen}
    \cup {StripNewline(r) : r \in Lines}

\* main has read `line` and is about to call parse_line
InitParse ==
  /\ pc = "parse"
  /\ status = 0
  /\ status_written = FALSE
  /\ main_args = "unset"
  /\ nread = 1
  /\ line \in AllLines
  /\ args = NoArgs
  /\ pipe_index = -1
  /\ heapBuf = {<<1, "line">>}
  /\ heapTok = {}
  /\ memErr = {}
  /\ msg = "none"
  /\ pfd = [f \in Fds |-> IF f \in {0, 1, 2} THEN "tty" ELSE "closed"]
  /\ pfd0 = pfd
  /\ pipe_fd = <<-1, -1>>
  /\ child = [c \in {1, 2} |-> NoChild]
  /\ sigint = "IGN"
  /\ cwd = S_start
  /\ home = <<>>
  /\ sigchld_ign = FALSE

NextParse ==
  \/ ParseLine
  \/ HpCheck
  \/ MainParseNull

SpecParse == InitParse /\ [][NextParse]_vars

\* ------------------------------------------------------------------------
\* Properties
\* ------------------------------------------------------------------------

\* the positions of handle_pipe
HpPcs == {"hp_check", "hp_pipe", "hp_fork1", "hp_fork2", "hp_kill", "hp_killwait",
          "hp_failclose", "hp_close0", "hp_close1", "hp_wait1", "hp_wait2",
          "hp_free1", "hp_free2"}

\* a descriptor table holds an end of the channel
HoldsChannelEnd(fds) == \E f \in Fds : fds[f] \in {"r", "w"}

\* diagnostics of a failed allocation in parse_line
AllocFailureMsgs == {"strdup failed in parse_line", "malloc failed in parse_line",
                     "strdup failed during tokenization"}

\* C1: a line for which parse_line returned no Command (too many tokens, an
\* empty pipeline half, a pipeline handed to handle_pipe) does not stop the
\* interpreter: from the loop condition reached by `continue`, main goes on to
\* read the next line, at any position in the session.
C1_NoCommandLineReadsNext ==
  [][(pc = "cond" /\ main_args = "NULL" /\ msg \notin AllocFailureMsgs) => pc' = "read"]_vars

\* C2: the main loop ends only after `exit` was dispatched or at end of input
\* (every NULL of read_line is counted as end of input here).
C2_StopsOnlyOnExitOrEndOfInput ==
  [][(pc # "done" /\ pc' = "done")
       => (pc = "read" \/ (pc = "cond" /\ status_written /\ status = 0))]_vars

\* C3: execute_command returns 0 exactly when the first token is "exit", and
\* 1 for every other Command.
C3_StopExactlyOnExit ==
  pc = "free" =>
    /\ status_written
    /\ status = (IF args[0] = Ptr(S_exit) THEN 0 ELSE 1)

\* "exit" with a trailing argument has returned stop
C3_Witness ==
  /\ pc = "free"
  /\ args[0] = Ptr(S_exit)
  /\ args[1].k = "ptr"
  /\ status = 0

\* C4: outside handle_pipe the interpreter holds no end of a channel, and its
\* descriptor table is the one it started with, on every path and after any
\* number of pipeline lines.
C4_NoChannelEndAfterPipe ==
  pc \notin HpPcs => (~HoldsChannelEnd(pfd) /\ pfd = pfd0)

\* handle_pipe has returned after both children were spawned and reaped
C4_Witness ==
  /\ pc = "parse_null"
  /\ child[1].pc = "reaped"
  /\ child[2].pc = "reaped"
  /\ ~HoldsChannelEnd(pfd)

\* C5: whenever the interpreter is at a waitpid of handle_pipe it holds
\* neither end of the channel.
C5_NoEndHeldWhileWaiting ==
  pc \in {"hp_killwait", "hp_wait1", "hp_wait2"} => ~HoldsChannelEnd(pfd)

\* a pipe-bearing line one of whose halves is empty, as handle_pipe sees it
EmptyHalf == pipe_index # -1 /\ (args[0] = Null \/ args[pipe_index + 1] = Null)

\* C6: a pipe-bearing line with an empty half is rejected with the usage error
\* before anything is created: the interpreter never leaves the check for the
\* rest of handle_pipe or for the dispatcher, no channel exists and no child
\* exists.
C6_EmptyHalfRejected ==
  EmptyHalf =>
    /\ pc \in {"hp_check", "parse_null", "cond"}
    /\ (pc # "hp_check" => msg = "Invalid command usage with pipe")
    /\ \A n \in {1, 2} : child[n].pc = "none"
    /\ ~HoldsChannelEnd(pfd)
    /\ pipe_fd = <<-1, -1>>

\* "ls |" has been rejected
C6_Witness ==
  /\ pc = "cond"
  /\ EmptyHalf
  /\ args[0] # Null
  /\ msg = "Invalid command usage with pipe"

\* the number of "|" tokens of a token sequence
BarCount(toks) == Cardinality({k \in 1..Len(toks) : toks[k] = BAR})
\* the position of its first "|" token
FirstBar(toks) == CHOOSE k \in 1..Len(toks) :
                    toks[k] = BAR /\ \A m \in 1..(k - 1) : toks[m] # BAR
\* s has an element equal to "|"
HasBar(v) == \E k \in 1..Len(v) : v[k] = BAR

\* the two vectors handle_pipe is called with
Command1 == Vec(args, 0)
Command2 == Vec(args, pipe_index + 1)

\* C7 (as claimed): the vectors passed to handle_pipe are the tokens before
\* and after the marker, in order, and neither contains a "|" token.
C7_NoBarInEitherHalf ==
  pc = "hp_check" =>
    LET toks == StrTok(line) IN
      /\ Command1 = SubSeq(toks, 1, FirstBar(toks) - 1)
      /\ Command2 = SubSeq(toks, FirstBar(toks) + 1, Len(toks))
      /\ ~HasBar(Command1)
      /\ ~HasBar(Command2)

\* C7 (amended): the vectors passed to handle_pipe are the tokens before the
\* first "|" token and the tokens after it, in order; the first vector has no
\* "|" token, and the second has one exactly when the line has more than one.
C7_SplitAtFirstBar ==
  pc = "hp_check" =>
    LET toks == StrTok(line) IN
      /\ Command1 = SubSeq(toks, 1, FirstBar(toks) - 1)
      /\ Command2 = SubSeq(toks, FirstBar(toks) + 1, Len(toks))
      /\ ~HasBar(Command1)
      /\ (HasBar(Command2) <=> BarCount(toks) > 1)

\* a pipeline whose halves hold different words, the first two of them
C7_Witness ==
  /\ pc = "hp_check"
  /\ Command1 = <<<<"a">>, <<"b">>>>
  /\ Command2 = <<<<"b">>>>

\* C8 (as claimed): when the second spawn has failed, the failure is reported
\* only after the first child was terminated and waited for.
C8_KillAndWaitBeforeReport ==
  msg = "fork failed for second command" => child[1].pc \in {"none", "reaped"}

\* C8 (amended): when the second spawn fails the failure is reported first,
\* and the first child is then terminated and waited for before handle_pipe
\* closes the channel and returns; when channel creation or the first spawn
\* fails no child exists.  No child is running or unreaped at the return.
C8_NoChildLeftOnFailure ==
  /\ msg \in {"pipe failed", "fork failed for first command"}
       => \A n \in {1, 2} : child[n].pc = "none"
  /\ (msg = "fork failed for second command" /\ pc \notin {"hp_kill", "hp_killwait"})
       => (child[1].pc \in {"none", "reaped"} /\ child[2].pc = "none")

\* handle_pipe has returned after its second fork failed
C8_Witness ==
  /\ pc = "parse_null"
  /\ msg = "fork failed for second command"
  /\ child[1].pc = "reaped"

\* C9: while a child of a pipeline is neither reaped nor gone, handle_pipe has
\* not returned and has released nothing: the array and every token block of
\* the line are live.
C9_StorageHeldUntilBothReaped ==
  (pipe_index # -1 /\ \E n \in {1, 2} : child[n].pc \notin {"none", "reaped"}) =>
    /\ pc \in HpPcs \ {"hp_free1", "hp_free2"}
    /\ "args" \in CurBuf
    /\ CurTok = Run(args, 0) \cup {pipe_index} \cup Run(args, pipe_index + 1)

\* the consumer has terminated first; the interpreter waits for the producer
C9_Witness ==
  /\ pc = "hp_wait1"
  /\ child[2].pc = "zombie"
  /\ child[1].pc = "image"
  /\ "args" \in CurBuf

\* C10: once launch_process has returned after a successful fork, its child
\* has exited or was killed by a signal, and has been reaped; a stop report
\* does not end the wait.
C10_ReturnsOnlyAfterTermination ==
  (pc # "lp_wait" /\ child[1].role = "single") =>
    /\ child[1].pc = "reaped"
    /\ child[1].term \in {"exit", "exit 1", "signal"}

\* launch_process has returned for a child that had been reported stopped
C10_Witness ==
  /\ pc = "free"
  /\ child[1].role = "single"
  /\ child[1].pc = "reaped"
  /\ child[1].stops > 0

\* the positions of a child at which it runs a program image
ImagePcs == {"image", "stopped"}

\* C11: from its first statement to the end of the session the interpreter
\* ignores the interrupt signal, whatever its children do; every child (single
\* command, producer, consumer) that is about to call execvp or runs a program
\* image has the default disposition.
C11_IgnoredInShellDefaultInPrograms ==
  /\ pc # "start" => sigint = "IGN"
  /\ \A n \in {1, 2} : child[n].pc \in ImagePcs \cup {"exec"} => child[n].sigint = "DFL"

\* producer and consumer both run their programs with the default disposition
\* while the interpreter ignores the signal
C11_Witness ==
  /\ child[1].pc = "image" /\ child[1].role = "producer" /\ child[1].sigint = "DFL"
  /\ child[2].pc = "image" /\ child[2].role = "consumer" /\ child[2].sigint = "DFL"
  /\ sigint = "IGN"

\* C12: a pipeline child whose dup2 failed has reported it and exited with
\* status 1, and is never at its execvp nor in a program image; the step that
\* fails changes nothing in the other child or in the interpreter; and once
\* handle_pipe has returned, every child of the pipeline has been reaped.
C12_RedirectFailureIsFatal ==
  /\ [](\A n \in {1, 2} : child[n].said = "dup2 failed" =>
           /\ child[n].term = "exit 1"
           /\ child[n].pc \in {"zombie", "autoreaped", "reaped"})
  /\ []((pc \notin HpPcs /\ \E n \in {1, 2} : child[n].said = "dup2 failed") =>
           \A m \in {1, 2} : child[m].pc \in {"none", "reaped"})
  /\ [][\A n \in {1, 2} :
          (child[n].pc = "dup2" /\ child'[n].said = "dup2 failed") =>
             (child'[3 - n] = child[3 - n] /\ UNCHANGED parentOnly)]_vars

\* the producer's redirection failed; the consumer ran its program to its end;
\* handle_pipe has reaped both and returned
C12_Witness ==
  /\ pc = "parse_null"
  /\ child[1].said = "dup2 failed" /\ child[1].pc = "reaped"
  /\ child[2].role = "consumer" /\ child[2].term = "exit" /\ child[2].pc = "reaped"

\* C13: a producer that runs its program image has the write end of the
\* channel as its standard output and no other descriptor of the channel; a
\* consumer that runs its program image has the read end as its standard
\* input and no other descriptor of the channel; for every pair of descriptor
\* numbers pipe() returns in a session, descriptor 1 as the read end included.
C13_OnlyStdStreamOnChannel ==
  \A n \in {1, 2} :
    (child[n].pc \in ImagePcs /\ child[n].role \in {"producer", "consumer"}) =>
       LET std == IF child[n].role = "producer" THEN 1 ELSE 0
           end == IF child[n].role = "producer" THEN "w" ELSE "r"
       IN /\ child[n].fds[std] = end
          /\ \A f \in Fds \ {std} : child[n].fds[f] \notin {"r", "w"}

\* both programs run on a channel whose read end was created as descriptor 1
C13_Witness ==
  /\ pipe_fd[1] = 1
  /\ child[1].pc = "image" /\ child[1].role = "producer" /\ child[1].fds[1] = "w"
  /\ child[2].pc = "image" /\ child[2].role = "consumer" /\ child[2].fds[0] = "r"

\* both children of a pipeline were spawned
BothSpawned == child[1].role = "producer" /\ child[2].role = "consumer"
\* the producer has terminated
ProducerDone == child[1].pc \in {"zombie", "autoreaped", "reaped"}

\* C14: in a pipeline with both children spawned, once the producer has
\* terminated, eventually no process holds the write end open (the interpreter
\* and the consumer close theirs without waiting for anyone), and, the consumer
\* program terminating on end-of-stream, the interpreter eventually gets past
\* both of its waits.
C14_WritersCloseAndWaitsReturn ==
  /\ (BothSpawned /\ ProducerDone) ~> NoWriteEnd
  /\ (BothSpawned /\ ProducerDone) ~>
       (pc \notin {"hp_close0", "hp_close1", "hp_wait1", "hp_wait2"})

\* the producer has terminated while the interpreter and the consumer each
\* still hold the write end
C14_Witness ==
  /\ pc = "hp_close0"
  /\ BothSpawned /\ ProducerDone
  /\ child[2].pc = "sig"
  /\ pfd[pipe_fd[2]] = "w"
  /\ child[2].fds[pipe_fd[2]] = "w"

\* C15: once parse_line has reported "Too many arguments" for a line of more
\* than MAX_ARGS tokens it has returned NULL to main: no Command, no pipeline,
\* no child and no channel, with or without a "|" token in the line; and a
\* line of exactly MAX_ARGS tokens yields those tokens and the terminator.
C15_OverCapReturnsNoCommand ==
  /\ (TooMany(StrTok(line)) /\ msg = "Too many arguments") =>
       /\ pc \in {"parse_null", "cond"}
       /\ main_args = "NULL"
       /\ \A n \in {1, 2} : child[n].pc = "none"
       /\ ~HoldsChannelEnd(pfd)
  /\ (Len(StrTok(line)) = MAX_ARGS /\ pc = "exec") =>
       (Vec(args, 0) = StrTok(line) /\ args[MAX_ARGS] = Null)

\* the positions of one line cycle, from the call of parse_line to the loop
\* condition
CyclePcs == {"parse", "exec", "lp_wait", "free", "parse_null", "cond", "crashed"} \cup HpPcs

\* the line of the current cycle consists of spaces, tabs and newlines only
BlankLine == pc \in CyclePcs /\ \A k \in 1..Len(line) : line[k] \in {" ", "\t", "\n"}

\* C16: in the cycle of a line of spaces, tabs and newlines only (the empty
\* line included) the interpreter never enters the launcher or the pipeline
\* orchestrator, no child and no channel exists, the descriptor table and the
\* working directory do not change, and execute_command returns continue
\* without a diagnostic.
C16_BlankLineIsNoOp ==
  /\ [](BlankLine =>
          /\ pc \in {"parse", "exec", "free", "parse_null", "cond"}
          /\ \A n \in {1, 2} : child[n].pc = "none"
          /\ ~HoldsChannelEnd(pfd) /\ pfd = pfd0
          /\ (pc = "exec" => args[0] = Null)
          /\ (pc = "free" => (status_written /\ status = 1 /\ msg = "none")))
  /\ [][BlankLine => cwd' = cwd]_vars

\* the line " \t" has been dispatched and reported continue
C16_Witness ==
  /\ pc = "free"
  /\ line = <<" ", "\t">>
  /\ args[0] = Null
  /\ status_written /\ status = 1

\* execute_command is about to dispatch a `cd`
AtCd == pc = "exec" /\ args[0] = Ptr(S_cd)

\* what a failed `cd` does: a diagnostic, the same working directory, no
\* process, and continue
CdFailsCleanly ==
  /\ msg' # "none"
  /\ cwd' = cwd
  /\ child' = child
  /\ pc' = "free" /\ status' = 1

\* C17 (as claimed): a `cd` to a bad path, or without argument and without
\* HOME, reports, leaves the working directory alone, spawns nothing and
\* returns continue; a `cd` without argument, whatever came before it, moves
\* to the home directory whenever HOME is set.
C17_CdHomeWheneverConfigured ==
  [][AtCd =>
       /\ ((args[1] = Null /\ home = <<>>) \/ (args[1] # Null /\ args[1].s \notin ExistingDirs))
            => CdFailsCleanly
       /\ (args[1] = Null /\ home # <<>>) => cwd' = home]_vars

\* C17 (amended): a `cd` to a bad path, or without argument and without HOME,
\* or without argument when HOME names no directory that can be entered,
\* reports, leaves the working directory alone, spawns nothing and returns
\* continue; a `cd` without argument, whatever came before it, moves to the
\* home directory when HOME is set and names a directory that can be entered.
C17_CdHomeWhenEnterable ==
  [][AtCd =>
       /\ ((args[1] = Null /\ home \notin ExistingDirs) \/ (args[1] # Null /\ args[1].s \notin ExistingDirs))
            => CdFailsCleanly
       /\ (args[1] = Null /\ home \in ExistingDirs) =>
            (cwd' = home /\ msg' = "none" /\ child' = child /\ pc' = "free" /\ status' = 1)]_vars

\* the second line of a session was a bare `cd`, and the interpreter is in the
\* home directory
C17_Witness ==
  /\ pc = "free"
  /\ nread = 2
  /\ args[0] = Ptr(S_cd) /\ args[1] = Null
  /\ home = S_home /\ cwd = S_home

\* execute_command is about to dispatch a non-empty Command
AtDispatch == pc = "exec" /\ args[0] # Null

\* C18: a non-empty Command whose first token is exactly "cd" or "exit" is
\* handled by handle_builtin (stop for "exit", continue for "cd") and no
\* process is spawned; every other non-empty Command ("Exit", "cdd", ...)
\* goes to launch_process, which calls fork once: either the single child
\* exists and is waited for, or the failed fork is reported; no second child
\* is ever created for it.
C18_BuiltinExactlyOnNameMatch ==
  /\ [][AtDispatch =>
          IF args[0].s = <<"c", "d">> \/ args[0].s = <<"e", "x", "i", "t">>
          THEN /\ child' = child
               /\ pc' = "free"
               /\ status' = (IF args[0].s = <<"e", "x", "i", "t">> THEN 0 ELSE 1)
               /\ msg' \notin {"fork failed", "built-in command not implemented"}
          ELSE \/ /\ child'[1] = Forked("single") /\ child'[2] = child[2]
                  /\ pc' = "lp_wait"
               \/ /\ msg' = "fork failed" /\ child' = child
                  /\ pc' = "free" /\ status' = 1]_vars
  /\ [](pc = "lp_wait" => (child[1].role = "single" /\ child[2].pc = "none"))

\* "Exit" was given to the launcher, whose child has started its program
C18_Witness ==
  /\ pc = "lp_wait"
  /\ args[0] = Ptr(S_Exit)
  /\ child[1].role = "single" /\ child[1].pc = "image"

\* the positions of a child: its own statements between fork and execvp, the
\* program image, and its end
ChildPcs == {"none", "sig", "close_unused", "dup2", "close_used", "exec",
             "image", "stopped", "zombie", "autoreaped", "reaped"}

\* C19: a child (single command, producer or consumer) whose execvp failed has
\* reported it and terminated with status 1; a child is only ever at one of
\* its own statements before execvp, in its program image, or terminated: it
\* is never in the code that follows the spawn site; and a child that exited
\* with status 1 before any program ran has said why.
C19_ChildEndsInImageOrExit ==
  \A n \in {1, 2} :
    /\ child[n].pc \in ChildPcs
    /\ child[n].said = "shell" =>
         (child[n].term = "exit 1" /\ child[n].pc \in {"zombie", "autoreaped", "reaped"})
    /\ child[n].term = "exit 1" => child[n].said \in {"shell", "dup2 failed"}

\* neither stage of a pipeline could be started: both children have reported
\* and exited, and the interpreter is at its first wait
C19_Witness ==
  /\ pc = "hp_wait1"
  /\ \A n \in {1, 2} : child[n].said = "shell" /\ child[n].term = "exit 1"
  /\ child[1].role = "producer" /\ child[2].role = "consumer"

\* the positions of a line at which a token starts: a character that is no
\* space, tab or newline, at the start of the line or after one of these
TokenStarts(l) ==
  {k \in 1..Len(l) : l[k] \notin {" ", "\t", "\n"}
                       /\ (k = 1 \/ l[k - 1] \in {" ", "\t", "\n"})}

\* C20: when parse_line returns the tokens of a line (at most MAX_ARGS of
\* them, none the "|" marker), tokenizing their join with single spaces
\* gives the same tokens in the same order; no token is empty or contains a
\* space, a tab or a newline; and there is one token per maximal run of other
\* characters, so that repeated, leading and trailing delimiters add none.
C20_TokenizeJoinRoundTrip ==
  (pc = "exec") =>
    LET toks == Vec(args, 0) IN
      /\ Len(toks) <= MAX_ARGS
      /\ \A k \in 1..Len(toks) : toks[k] # BAR
      /\ StrTok(Join(toks)) = toks
      /\ \A k \in 1..Len(toks) :
           /\ toks[k] # <<>>
           /\ \A c \in 1..Len(toks[k]) : toks[k][c] \notin {" ", "\t", "\n"}
      /\ Len(toks) = Cardinality(TokenStarts(line))

\* a line with a leading tab, a run of two delimiters and a trailing space
\* was split into its two words
C20_Witness ==
  /\ pc = "exec"
  /\ line = <<"\t", "a", " ", "\t", "b", " ">>
  /\ Vec(args, 0) = << <<"a">>, <<"b">> >>

\* blocks of the tokenizer that are still allocated: the array, the working
\* copy of the line, and token strings
TokenizerBlocksLive == CurBuf \cap {"args", "line_copy"} # {} \/ CurTok # {}

\* handle_pipe has returned after it spawned and reaped both children
PipelineCompleted ==
  /\ pc \in {"parse_null", "cond"}
  /\ BothSpawned
  /\ \A n \in {1, 2} : child[n].pc = "reaped"

\* C21: once handle_pipe has returned from a pipeline whose two children were
\* spawned and reaped, no block of the tokenizer is still allocated (the token
\* that held "|" included), and no memory error has occurred: free was given
\* only start addresses of live blocks and nothing was read after its free.
C21_PipelineStorageFreedOnce ==
  PipelineCompleted => (~TokenizerBlocksLive /\ memErr = {})

\* diagnostics of the paths on which a pipe-bearing line is not run
PipelineNotRunMsgs == {"Invalid command usage with pipe", "pipe failed",
                       "fork failed for first command", "fork failed for second command"}

\* C22: when a pipe-bearing line was not run to completion (empty half, pipe()
\* failed, first or second fork failed), no block of the tokenizer is still
\* allocated when main is back at its loop condition, about to read the next
\* line.
C22_StorageReleasedOnPipelineFailure ==
  (pc = "cond" /\ pipe_index # -1 /\ msg \in PipelineNotRunMsgs) => ~TokenizerBlocksLive

\* the line of the current cycle has the character "|", but only inside
\* longer tokens
EmbeddedBarOnly ==
  /\ pc \in CyclePcs
  /\ PipePresent(line)
  /\ ~HasBar(StrTok(line))

\* C23: the interpreter is in handle_pipe only for a line one of whose tokens
\* is exactly "|", and dispatches a Command only for a line that has no such
\* token, the Command being all the tokens of the line; a line with "|" only
\* inside longer tokens never reaches handle_pipe, has no channel and no
\* second child, and is returned as a Command unless an allocation failed.
C23_PipelineExactlyOnBarToken ==
  /\ pc \in HpPcs => HasBar(StrTok(line))
  /\ pc \in {"exec", "lp_wait", "free"} =>
       LET toks == StrTok(line) IN ~HasBar(toks) /\ Vec(args, 0) = toks
  /\ EmbeddedBarOnly =>
       /\ pc \notin HpPcs
       /\ pipe_index = -1
       /\ pipe_fd = <<-1, -1>> /\ ~HoldsChannelEnd(pfd)
       /\ child[2].pc = "none"
       /\ (main_args = "NULL" /\ pc \in {"parse_null", "cond"}) => msg \in AllocFailureMsgs

\* "ls|wc x" was dispatched as the single Command <<"ls|wc", "x">>, whose
\* program runs
C23_Witness ==
  /\ pc = "lp_wait"
  /\ Vec(args, 0) = << S_ls \o BAR \o S_wc, S_x >>
  /\ child[1].role = "single" /\ child[1].pc = "image"

\* every slot of the vector &a[from] up to and including its first NULL has
\* been written, within the MAX_ARGS + 1 slots of the array
TerminatorWritten(a, from) ==
  \E j \in from..MAX_ARGS : a[j] = Null /\ \A m \in from..(j - 1) : a[m].k = "ptr"

\* C24: free_args is only ever called on an array whose slots up to and
\* including the first terminator have been written, the cleanup of the
\* too-many-tokens path included: it never reads an unwritten slot.
C24_FreeArgsReadsOnlyWrittenSlots ==
  /\ "uninitialized read" \notin memErr
  /\ (msg = "Too many arguments" /\ pc \in {"parse_null", "cond", "crashed"})
       => TerminatorWritten(args, 0)
  /\ pc \in {"free", "hp_free1"} => TerminatorWritten(args, 0)

\* the line of the current cycle was split at a "|" token
PipeLineCycle == pipe_index # -1

\* C25: in the cycle of a pipe-bearing line (stages named `cd` or `exit`
\* included) the interpreter never dispatches a Command itself and does not
\* end abnormally, its working directory does not change, and the session
\* does not stop: main goes on from its loop condition to read the next line.
C25_PipelineLineNeverStopsSession ==
  /\ [](PipeLineCycle => pc \in HpPcs \cup {"parse_null", "cond"})
  /\ [][PipeLineCycle => (cwd' = cwd /\ pc' # "done")]_vars

====
